---------------------------- MODULE Spec2Model ----------------------------
(***************************************************************************)
(* bevy_lazy_signals: the observable cell (src/src/signals.rs), the user   *)
(* API (src/src/api.rs), the subscription helper                           *)
(* (src/src/arcane_wizardry.rs), the system chain and the tick resource    *)
(* (src/src/lib.rs), driven over the dependency graph that                 *)
(* src/examples/basic_test.rs builds.  The bodies of the six systems of    *)
(* the chain live in the crate's `systems` module; they are modelled from  *)
(* section 4.3 of the specification and call the cell operations below.    *)
(***************************************************************************)
EXTENDS Integers, Sequences, FiniteSets, TLC

(***************************************************************************)
(* Option<T>: None is the empty tuple, Some(v) the one-element tuple.      *)
(***************************************************************************)
None == << >>
Some(v) == << v >>

Range(seq) == { seq[i] : i \in 1..Len(seq) }

(***************************************************************************)
(* The graph of basic_test.rs::init.  signal0 is the login flag, signal1   *)
(* the login message, signal2 the unit-typed trigger.  effect2 is the      *)
(* trigger-only synchronous effect of the specification's section 8.       *)
(* signal3, computed2 and effect3 are a second, separate chain whose       *)
(* functions can fail: computed2 checks the reading signal3 carries, and   *)
(* effect3 consumes computed2.  signal4, computed3 and computed4 are a      *)
(* third chain, with a dependency cycle: computed3 derives from signal4    *)
(* and computed4, and computed4 from computed3.                            *)
(***************************************************************************)
Signals == { "signal0", "signal1", "signal2", "signal3", "signal4" }
Computeds == { "computed0", "computed1", "computed2", "computed3",
               "computed4" }
SyncEffects == { "effect0", "effect1", "effect2", "effect3" }
Tasks == { "task0" }
Effects == SyncEffects \cup Tasks
Cells == Signals \cup Computeds
Consumers == Computeds \cup Effects

Messages == { "msg1", "msg2" }
NotAuthorized == "NotAuthorized"
Unit == "unit"
Readings == { "valid", "invalid", "missing" }
DerivationFailure == "DerivationFailure"
EffectFailure == "EffectFailure"

\* the values a send may carry, by the cell's type
ValuesOf(cell) ==
    CASE cell = "signal0" -> BOOLEAN
      [] cell = "signal1" -> Messages
      [] cell = "signal3" -> Readings
      [] cell = "signal4" -> BOOLEAN
      [] OTHER -> { Unit }

sources(node) ==
    CASE node = "effect0" -> << "signal0", "signal1" >>
      [] node = "computed0" -> << "signal0", "signal1" >>
      [] node = "effect1" -> << "signal0", "computed0" >>
      [] node = "computed1" -> << "signal0", "computed0" >>
      [] node = "computed2" -> << "signal3" >>
      [] node = "effect3" -> << "computed2" >>
      [] node = "computed3" -> << "signal4", "computed4" >>
      [] node = "computed4" -> << "computed3" >>
      [] OTHER -> << >>

triggers(node) ==
    CASE node = "task0" -> << "signal2" >>
      [] node = "effect2" -> << "signal2" >>
      [] OTHER -> << >>

(***************************************************************************)
(* derive_login_msg and the closure of computed1: the message when logged  *)
(* in, the default text otherwise.  The result is Some(Ok(value)).         *)
(***************************************************************************)
derive_login_msg(args) ==
    [ kind |-> "Ok", val |-> IF args[1] THEN args[2] ELSE NotAuthorized ]

\* the closure of computed2: Some(Err) for an invalid reading, None for a
\* missing one, Some(Ok(reading)) otherwise
derive_checked(args) ==
    CASE args[1] = "invalid" -> [ kind |-> "Err", val |-> DerivationFailure ]
      [] args[1] = "missing" -> [ kind |-> "None", val |-> Unit ]
      [] OTHER -> [ kind |-> "Ok", val |-> args[1] ]

\* the closures of the cycle: computed3 tells whether its two sources
\* differ, computed4 negates its source
derive_differ(args) == [ kind |-> "Ok", val |-> args[1] # args[2] ]

derive_negate(args) == [ kind |-> "Ok", val |-> ~ args[1] ]

Derive(node, args) ==
    CASE node = "computed2" -> derive_checked(args)
      [] node = "computed3" -> derive_differ(args)
      [] node = "computed4" -> derive_negate(args)
      [] OTHER -> derive_login_msg(args)

\* the result of an effect's closure: effect3 fails on a failed derivation,
\* the effects of the example end with Some(Ok(()))
end_effect == [ kind |-> "Ok", val |-> Unit ]

RunEffect(node, args) ==
    IF node = "effect3" /\ args[1] = DerivationFailure
    THEN [ kind |-> "Err", val |-> EffectFailure ]
    ELSE end_effect

(***************************************************************************)
(* LazyImmutable<T> (signals.rs)                                           *)
(***************************************************************************)
new(data) ==
    [ data |-> data, next_value |-> None,
      subscribers |-> {}, next_subscribers |-> {} ]

\* a staging that writes the value into the data as well
merge_next_through(self, next) ==
    [ self EXCEPT !.next_value = Some(next), !.data = next ]

\* a staging that keeps the value staged first
merge_next_first(self, next) ==
    IF self.next_value = None THEN [ self EXCEPT !.next_value = Some(next) ]
    ELSE self

merge_next(self, next) == [ self EXCEPT !.next_value = Some(next) ]

\* a read that prefers the staged value to the committed one
read_pending(self) ==
    IF self.next_value # None THEN self.next_value[1] ELSE self.data

read(self) == self.data

\* a subscription that is live as soon as it is staged
subscribe_live(self, entity) ==
    [ self EXCEPT !.next_subscribers = @ \cup { entity },
                  !.subscribers = @ \cup { entity } ]

subscribe(self, entity) ==
    [ self EXCEPT !.next_subscribers = @ \cup { entity } ]

\* value: subscribe the caller, then read; the cell after the call and the
\* value returned
\* a read that puts its caller into the live set at once
value_unbuffered(self, caller) ==
    [ cell |-> [ self EXCEPT !.subscribers = @ \cup { caller } ],
      val |-> read(self) ]

value(self, caller) ==
    [ cell |-> subscribe(self, caller), val |-> read(subscribe(self, caller)) ]

\* a getter that reads the staging buffer
get_subscribers_staged(self) == self.next_subscribers

get_subscribers(self) == self.subscribers

\* merge: the cell after the call and the subscribers returned
\* a merge that commits whatever is staged, equal to the data or not
\* a merge that empties the subscribers before it captures them
merge_clear_first(self) ==
    IF self.next_value # None /\ self.data # self.next_value[1]
    THEN [ cell |-> [ self EXCEPT !.data = self.next_value[1],
                                  !.subscribers = {},
                                  !.next_value = None ],
           subs |-> get_subscribers([ self EXCEPT !.subscribers = {} ]) ]
    ELSE [ cell |-> [ self EXCEPT !.next_value = None ], subs |-> {} ]

\* a merge that leaves the live subscribers in place
merge_keep_live(self) ==
    IF self.next_value # None /\ self.data # self.next_value[1]
    THEN [ cell |-> [ self EXCEPT !.data = self.next_value[1],
                                  !.next_value = None ],
           subs |-> get_subscribers(self) ]
    ELSE [ cell |-> [ self EXCEPT !.next_value = None ], subs |-> {} ]

merge_unconditional(self) ==
    IF self.next_value # None
    THEN [ cell |-> [ self EXCEPT !.data = self.next_value[1],
                                  !.subscribers = {},
                                  !.next_value = None ],
           subs |-> get_subscribers(self) ]
    ELSE [ cell |-> self, subs |-> {} ]

merge(self) ==
    IF self.next_value # None /\ self.data # self.next_value[1]
    THEN [ cell |-> [ self EXCEPT !.data = self.next_value[1],
                                  !.subscribers = {},
                                  !.next_value = None ],
           subs |-> get_subscribers(self) ]
    ELSE [ cell |-> [ self EXCEPT !.next_value = None ], subs |-> {} ]

\* a commit that replaces the live set by the staged one
merge_subscribers_replace(self) ==
    [ self EXCEPT !.subscribers = self.next_subscribers,
                  !.next_subscribers = {} ]

merge_subscribers(self) ==
    [ self EXCEPT !.subscribers = @ \cup self.next_subscribers,
                  !.next_subscribers = {} ]

(***************************************************************************)
(* arcane_wizardry.rs::subscribe: stage and commit in one go, on a source  *)
(* that resolves to a cell; any other source is skipped.                   *)
(***************************************************************************)
\* a helper that subscribes the entity to every cell of the world
subscribe_to_source_all(entity, source, world) ==
    [ c \in DOMAIN world |-> merge_subscribers(subscribe(world[c], entity)) ]

\* a helper that stages the entity and leaves the commit to the tick
subscribe_to_source_staged(entity, source, world) ==
    IF source \in DOMAIN world
    THEN [ world EXCEPT ![source] = subscribe(@, entity) ]
    ELSE world

subscribe_to_source(entity, source, world) ==
    IF source \in DOMAIN world
    THEN [ world EXCEPT ![source] = merge_subscribers(subscribe(@, entity)) ]
    ELSE world

(***************************************************************************)
(* lib.rs: the two system chains and the tick resource                     *)
(***************************************************************************)
\* a chain that propagates the computeds before the staged writes are merged
lazy_signals_memos_first ==
    << "check_tasks", "init_effects", "init_computeds", "compute_memos",
       "send_signals", "apply_deferred_effects" >>

\* a chain that also applies the effects before the computeds are propagated
lazy_signals_eager_effects ==
    << "check_tasks", "init_effects", "init_computeds", "send_signals",
       "apply_deferred_effects", "compute_memos", "apply_deferred_effects" >>

lazy_signals_full_systems ==
    << "check_tasks", "init_effects", "init_computeds", "send_signals",
       "compute_memos", "apply_deferred_effects" >>

lazy_signals_flush_systems ==
    << "check_tasks", "init_effects", "init_computeds", "send_signals",
       "compute_memos" >>

LazySignalsResource ==
    [ changed |-> {}, dirty |-> {}, triggered |-> {}, errors |-> {} ]

\* a reset that leaves the changed cells of the run before in place
init_keep_changed(self) ==
    [ self EXCEPT !.dirty = {}, !.triggered = {}, !.errors = {} ]

\* a reset that leaves the recorded errors in place
init_keep_errors(self) ==
    [ self EXCEPT !.changed = {}, !.dirty = {}, !.triggered = {} ]

init(self) ==
    [ self EXCEPT !.changed = {}, !.dirty = {}, !.triggered = {},
                  !.errors = {} ]


(***************************************************************************)
(* api.rs: send and trigger stage a value on the cell (the command they    *)
(* queue calls merge_next); read and value go to the cell.                 *)
(***************************************************************************)
send(signal, data, w) == [ w EXCEPT ![signal] = merge_next(@, data) ]

trigger(signal, data, w) == [ w EXCEPT ![signal] = merge_next(@, data) ]

\* the type of the data a cell holds
TypeOf(cell) ==
    CASE cell \in { "signal0", "signal4", "computed3", "computed4" } -> "bool"
      [] cell = "signal2" -> "unit"
      [] OTHER -> "str"

\* SignalsError
NoSignalError == [ error |-> "NoSignalError", entity |-> None ]
ReadError(entity) == [ error |-> "ReadError", entity |-> Some(entity) ]

\* entity.get::<LazyImmutable<R>>() is Some: the entity is a cell of type R
Resolves(entity, R, w) == entity \in DOMAIN w /\ TypeOf(entity) = R

\* LazySignals.read: the handle is an Option; the world after the call and
\* the result
LazySignals_read(immutable, R, w) ==
    IF immutable = None
    THEN [ world |-> w, result |-> [ kind |-> "Err", val |-> NoSignalError ] ]
    ELSE IF Resolves(immutable[1], R, w)
    THEN [ world |-> w,
           result |-> [ kind |-> "Ok", val |-> read(w[immutable[1]]) ] ]
    ELSE [ world |-> w,
           result |-> [ kind |-> "Err", val |-> ReadError(immutable[1]) ] ]

\* a value() that stages the caller on the entity before it looks at the type
LazySignals_value_eager(immutable, R, caller, w) ==
    IF immutable = None
    THEN [ world |-> w, result |-> [ kind |-> "Err", val |-> NoSignalError ] ]
    ELSE IF Resolves(immutable[1], R, w)
    THEN [ world |-> [ w EXCEPT ![immutable[1]] = value(@, caller).cell ],
           result |-> [ kind |-> "Ok",
                        val |-> value(w[immutable[1]], caller).val ] ]
    ELSE [ world |-> IF immutable[1] \in DOMAIN w
                     THEN [ w EXCEPT ![immutable[1]] = subscribe(@, caller) ]
                     ELSE w,
           result |-> [ kind |-> "Err", val |-> ReadError(immutable[1]) ] ]

\* LazySignals.value: the cell's value, the caller staged as a subscriber; a
\* handle that is absent or resolves to no cell of the type is an error and
\* changes nothing
LazySignals_value(immutable, R, caller, w) ==
    IF immutable = None
    THEN [ world |-> w, result |-> [ kind |-> "Err", val |-> NoSignalError ] ]
    ELSE IF Resolves(immutable[1], R, w)
    THEN [ world |-> [ w EXCEPT ![immutable[1]] = value(@, caller).cell ],
           result |-> [ kind |-> "Ok",
                        val |-> value(w[immutable[1]], caller).val ] ]
    ELSE [ world |-> w,
           result |-> [ kind |-> "Err", val |-> ReadError(immutable[1]) ] ]

\* MyToggleLoginCommand::apply: read the flag in the world as it is when
\* the command is applied, and send its negation
\* a command that writes the negated flag into the cell's data at once
MyToggleLoginCommand_Direct(entity, w) ==
    [ w EXCEPT ![entity].data = ~ read(w[entity]) ]

MyToggleLoginCommand(entity, w) == send(entity, ~ read(w[entity]), w)

(***************************************************************************)
(* Bounds of the model                                                     *)
(***************************************************************************)
MaxTriggerCalls == 3
MaxInflight == 2
MaxCount == 2

VARIABLES
    world,          \* the LazyImmutable component of every cell
    send_signal,    \* cells carrying the SendSignal marker
    trigger_flag,   \* cells whose staged write is a trigger
    rebuild,        \* nodes carrying the RebuildSubscribers marker
    signals,        \* the LazySignalsResource
    processed,      \* computeds evaluated in this run
    wave,           \* 0 before the work set is seeded, then the wave number
    work,           \* the work set of the current wave
    next_work,      \* the work set of the next wave
    deferred,       \* effects flagged as eligible to run
    running,        \* tasks whose running flag is set
    inflight,       \* per task, executions spawned and not yet reaped
    complete,       \* tasks whose execution has finished
    logged_in,      \* MyExampleAuthResource.logged_in
    schedule,       \* the system chain being run
    pc,             \* index of the running system in the chain, 0 when idle
    hist            \* history of the current run, for stating the properties

vars == << world, send_signal, trigger_flag, rebuild, signals, processed,
           wave, work, next_work, deferred, running, inflight, complete,
           logged_in, schedule, pc, hist >>

Cap(n) == IF n < MaxCount THEN n + 1 ELSE MaxCount

\* the history at the start of a run: nothing evaluated, nothing executed
NoHistory ==
    [ evals |-> [ c \in Computeds |-> 0 ],     \* derivations run, per computed
      runs |-> [ e \in Effects |-> 0 ],        \* executions, per effect
      calls |-> 0,                             \* trigger calls before the run
      sent |-> [ s \in Signals |-> None ],     \* value staged when merged
      old |-> [ c \in Cells |-> None ],        \* data before the merges
      seen |-> [ c \in Computeds |-> << >> ],  \* snapshot a derivation got
      readers |-> [ c \in Cells |-> {} ],      \* callers of value(), per cell
      notified |-> {},                         \* subscribers merges returned
      flagged |-> {},                          \* effects a computed notified
      fired |-> FALSE,                         \* the cell changed (CellSpec)
      live |-> {},                             \* live set at the last commit
      joined |-> {},                           \* value() callers committed
      reaped |-> {},                           \* tasks reaped by check_tasks
      wiped |-> FALSE,                         \* the reset found all sets used
      last |-> [ s \in Signals |-> None ],     \* value of the latest send
      dropped |-> [ s \in Signals |-> {} ],    \* staged values overwritten
      call |-> [ op |-> "none" ],              \* the API call of the last step
      result |-> [ kind |-> "None" ] ]         \* and what it returned

Init ==
    /\ world = [ c \in Cells |->
                   CASE c = "signal0" -> new(FALSE)
                     [] c = "signal1" -> new("msg1")
                     [] c = "signal2" -> new(Unit)
                     [] c = "signal3" -> new("valid")
                     [] c = "computed2" -> new("valid")
                     [] c = "signal4" -> new(FALSE)
                     [] c = "computed3" -> new(FALSE)
                     [] c = "computed4" -> new(TRUE)
                     [] OTHER -> new(NotAuthorized) ]
    /\ send_signal = {}
    /\ trigger_flag = {}
    /\ rebuild = Consumers
    /\ signals = LazySignalsResource
    /\ processed = {}
    /\ wave = 0
    /\ work = {}
    /\ next_work = {}
    /\ deferred = {}
    /\ running = {}
    /\ inflight = [ k \in Tasks |-> 0 ]
    /\ complete = {}
    /\ logged_in = FALSE
    /\ schedule = << >>
    /\ pc = 0
    /\ hist = NoHistory

Current ==
    IF pc = 0 THEN "idle"
    ELSE IF pc > Len(schedule) THEN "done" ELSE schedule[pc]

\* the chain runs its systems one after the other, each to completion
\* a chain that stops once a failure has been recorded
Advance_StopOnError == pc' = pc + 1 /\ signals.errors = {}

\* a chain that moves on only when no task is running
Advance_AwaitTasks == pc' = pc + 1 /\ running = {}

Advance == pc' = pc + 1

(***************************************************************************)
(* The host between two runs: systems of the application stage writes and  *)
(* triggers (send_some_signals), and a worker finishes a task.             *)
(***************************************************************************)
HostSend(signal, data) ==
    /\ pc = 0
    /\ world' = send(signal, data, world)
    /\ send_signal' = send_signal \cup { signal }
    /\ UNCHANGED << trigger_flag, rebuild, signals, processed, wave, work,
                    next_work, deferred, running, inflight, complete,
                    logged_in, schedule, pc, hist >>

HostTrigger(signal) ==
    /\ pc = 0
    /\ hist.calls < MaxTriggerCalls
    /\ world' = trigger(signal, Unit, world)
    /\ send_signal' = send_signal \cup { signal }
    /\ trigger_flag' = trigger_flag \cup { signal }
    /\ hist' = [ hist EXCEPT !.calls = @ + 1 ]
    /\ UNCHANGED << rebuild, signals, processed, wave, work, next_work,
                    deferred, running, inflight, complete, logged_in,
                    schedule, pc >>

TaskFinish(task) ==
    /\ inflight[task] > 0
    /\ task \notin complete
    /\ complete' = complete \cup { task }
    /\ UNCHANGED << world, send_signal, trigger_flag, rebuild, signals,
                    processed, wave, work, next_work, deferred, running,
                    inflight, logged_in, schedule, pc, hist >>

StartRun(systems) ==
    /\ pc = 0
    /\ schedule' = systems
    /\ pc' = 1
    /\ UNCHANGED << world, send_signal, trigger_flag, rebuild, signals,
                    processed, wave, work, next_work, deferred, running,
                    inflight, complete, logged_in, hist >>

\* the chain has run its last system: the host goes on
EndRun ==
    /\ Current = "done"
    /\ pc' = 0
    /\ schedule' = << >>
    /\ hist' = NoHistory
    /\ UNCHANGED << world, send_signal, trigger_flag, rebuild, signals,
                    processed, wave, work, next_work, deferred, running,
                    inflight, complete, logged_in >>


(***************************************************************************)
(* Helpers of the systems                                                  *)
(***************************************************************************)
RECURSIVE SubscribeAll(_, _, _)
\* subscribe `entity` to every handle of the list `srcs`
SubscribeAll(entity, srcs, w) ==
    IF srcs = << >> THEN w
    ELSE SubscribeAll(entity, Tail(srcs),
                      subscribe_to_source(entity, Head(srcs), w))

RECURSIVE RebuildAll(_, _)
\* subscribe every node of `nodes` to its declared sources and triggers
RebuildAll(nodes, w) ==
    IF nodes = {} THEN w
    ELSE LET n == CHOOSE x \in nodes : TRUE
         IN RebuildAll(nodes \ { n },
                       SubscribeAll(n, sources(n) \o triggers(n), w))

RECURSIVE ReadAll(_, _, _)
\* the positional snapshot of the sources of `caller`: each source is read
\* with value(), which stages the caller as a subscriber of it
ReadAll(caller, srcs, w) ==
    IF srcs = << >> THEN [ world |-> w, args |-> << >> ]
    ELSE LET r == value(w[Head(srcs)], caller)
             rest == ReadAll(caller, Tail(srcs),
                             [ w EXCEPT ![Head(srcs)] = r.cell ])
         IN [ world |-> rest.world, args |-> << r.val >> \o rest.args ]

RECURSIVE ReadBy(_, _)
\* the cell after every node of `callers` has read it with value()
ReadBy(callers, cell) ==
    IF callers = {} THEN cell
    ELSE LET n == CHOOSE x \in callers : TRUE
         IN ReadBy(callers \ { n }, value(cell, n).cell)

\* the world after every node of `nodes` has read its sources
ReadAllOf(nodes, w) ==
    [ c \in DOMAIN w |->
        ReadBy({ n \in nodes : c \in Range(sources(n)) }, w[c]) ]

\* the commit step: every cell folds its staged subscribers into the live set
CommitSubscribers(w) == [ c \in DOMAIN w |-> merge_subscribers(w[c]) ]

\* store_result: None leaves the cell alone; a value is staged and merged
\* a store that notifies the cell's subscribers on every stored result
store_result_always_notify(result, entity, w) ==
    IF result.kind = "None" THEN [ world |-> w, subs |-> {} ]
    ELSE LET m == merge(merge_next(w[entity], result.val))
         IN [ world |-> [ w EXCEPT ![entity] = m.cell ],
              subs |-> m.subs \cup get_subscribers(w[entity]) ]

\* a store that merges whatever the result carries, None included
store_result_unchecked(result, entity, w) ==
    LET m == merge(merge_next(w[entity], result.val))
    IN [ world |-> [ w EXCEPT ![entity] = m.cell ], subs |-> m.subs ]

\* a store that keeps Ok values only and drops an Err
store_result_ok_only(result, entity, w) ==
    IF result.kind # "Ok" THEN [ world |-> w, subs |-> {} ]
    ELSE LET m == merge(merge_next(w[entity], result.val))
         IN [ world |-> [ w EXCEPT ![entity] = m.cell ], subs |-> m.subs ]

store_result(result, entity, w) ==
    IF result.kind = "None" THEN [ world |-> w, subs |-> {} ]
    ELSE LET m == merge(merge_next(w[entity], result.val))
         IN [ world |-> [ w EXCEPT ![entity] = m.cell ], subs |-> m.subs ]

(***************************************************************************)
(* Phase 1, check_tasks: the resource starts fresh, and every running task *)
(* whose execution has finished has its command queue applied and its      *)
(* running flag cleared.                                                   *)
(***************************************************************************)
Reaped == { k \in running : k \in complete }

CheckTasks ==
    /\ Current = "check_tasks"
    /\ signals' = init(signals)
    /\ world' = IF Reaped # {} THEN MyToggleLoginCommand("signal0", world)
                ELSE world
    /\ send_signal' = IF Reaped # {} THEN send_signal \cup { "signal0" }
                      ELSE send_signal
    /\ running' = running \ Reaped
    /\ complete' = complete \ Reaped
    /\ inflight' = [ k \in Tasks |->
                       IF k \in Reaped THEN inflight[k] - 1 ELSE inflight[k] ]
    /\ hist' = [ hist EXCEPT
                   !.reaped = Reaped,
                   !.wiped = /\ signals.changed # {}
                             /\ signals.dirty # {}
                             /\ signals.triggered # {}
                             /\ signals.errors # {} ]
    /\ Advance
    /\ UNCHANGED << trigger_flag, rebuild, processed, wave, work, next_work,
                    deferred, logged_in, schedule >>

(***************************************************************************)
(* Phase 2, init_effects and init_computeds: every node marked for rebuild *)
(* is subscribed to its declared sources and triggers.                     *)
(***************************************************************************)
InitEffects ==
    /\ Current = "init_effects"
    /\ world' = RebuildAll(rebuild \cap Effects, world)
    /\ rebuild' = rebuild \ Effects
    /\ Advance
    /\ UNCHANGED << send_signal, trigger_flag, signals, processed, wave, work,
                    next_work, deferred, running, inflight, complete,
                    logged_in, schedule, hist >>

InitComputeds ==
    /\ Current = "init_computeds"
    /\ world' = RebuildAll(rebuild \cap Computeds, world)
    /\ rebuild' = rebuild \ Computeds
    /\ Advance
    /\ UNCHANGED << send_signal, trigger_flag, signals, processed, wave, work,
                    next_work, deferred, running, inflight, complete,
                    logged_in, schedule, hist >>

(***************************************************************************)
(* Phase 3, send_signals: every cell with a staged write is merged.  A     *)
(* cell whose data changed goes to `changed`, a triggered cell to          *)
(* `triggered`; the subscribers merge returns (for a trigger, the          *)
(* subscribers the cell has) are flagged: computeds dirty, effects         *)
(* deferred.                                                               *)
(***************************************************************************)
ChangedBy(w, cells) == { c \in cells : merge(w[c]).cell.data # w[c].data }

NotifiedBy(w, cells, trigs) ==
    UNION { merge(w[c]).subs : c \in cells }
        \cup UNION { get_subscribers(w[c]) : c \in cells \cap trigs }

SendSignals ==
    /\ Current = "send_signals"
    /\ world' = [ c \in Cells |->
                    IF c \in send_signal THEN merge(world[c]).cell
                    ELSE world[c] ]
    /\ signals' =
         [ signals EXCEPT
             !.changed = @ \cup ChangedBy(world, send_signal),
             !.triggered = @ \cup (send_signal \cap trigger_flag),
             !.dirty = @ \cup (NotifiedBy(world, send_signal, trigger_flag)
                                 \cap Computeds) ]
    /\ deferred' = deferred \cup (NotifiedBy(world, send_signal, trigger_flag)
                                    \cap Effects)
    /\ send_signal' = {}
    /\ trigger_flag' = {}
    /\ hist' = [ hist EXCEPT
                   !.sent = [ s \in Signals |->
                                IF s \in send_signal THEN world[s].next_value
                                ELSE None ],
                   !.old = [ c \in Cells |-> Some(world[c].data) ],
                   !.notified = @ \cup NotifiedBy(world, send_signal,
                                                  trigger_flag) ]
    /\ Advance
    /\ UNCHANGED << rebuild, processed, wave, work, next_work, running,
                    inflight, complete, logged_in, schedule >>


(***************************************************************************)
(* Phase 4, compute_memos: the work set is seeded from changed and         *)
(* triggered; in each wave every dirty computed whose source list meets    *)
(* the work set, and that has not been processed in this run, is           *)
(* evaluated once, in no particular order.  A computed whose value changed *)
(* joins `changed` and the next wave's work set, and its subscribers are   *)
(* flagged.  When the work set is empty, the staged subscribers of every   *)
(* cell are committed.                                                     *)
(***************************************************************************)
\* a guard without the processed mark: a computed is taken in every wave
\* that reaches it
Ready_EveryWave(node) ==
    /\ node \in signals.dirty
    /\ Range(sources(node)) \cap work # {}

Ready(node) ==
    /\ node \in signals.dirty
    /\ node \notin processed
    /\ Range(sources(node)) \cap work # {}

ComputeSeed ==
    /\ Current = "compute_memos"
    /\ wave = 0
    /\ work' = signals.changed \cup signals.triggered
    /\ wave' = 1
    /\ UNCHANGED << world, send_signal, trigger_flag, rebuild, signals,
                    processed, next_work, deferred, running, inflight,
                    complete, logged_in, schedule, pc, hist >>

EvalComputed(node) ==
    /\ Current = "compute_memos"
    /\ wave > 0
    /\ Ready(node)
    /\ LET snap == ReadAll(node, sources(node), world)
           result == Derive(node, snap.args)
           stored == store_result(result, node, snap.world)
           differs == stored.world[node].data # world[node].data
       IN /\ world' = stored.world
          /\ signals' =
               [ signals EXCEPT
                   !.changed = IF differs THEN @ \cup { node } ELSE @,
                   !.dirty = @ \cup (stored.subs \cap Computeds),
                   !.errors = IF result.kind = "Err"
                              THEN @ \cup { << node, result.val >> } ELSE @ ]
          /\ deferred' = deferred \cup (stored.subs \cap Effects)
          /\ next_work' = IF differs THEN next_work \cup { node }
                          ELSE next_work
          /\ hist' = [ hist EXCEPT
                         !.evals[node] = Cap(@),
                         !.seen[node] = snap.args,
                         !.readers = [ c \in Cells |->
                                         IF c \in Range(sources(node))
                                         THEN @[c] \cup { node } ELSE @[c] ],
                         !.notified = @ \cup stored.subs,
                         !.flagged = @ \cup (stored.subs \cap Effects) ]
    /\ processed' = processed \cup { node }
    /\ UNCHANGED << send_signal, trigger_flag, rebuild, wave, work, running,
                    inflight, complete, logged_in, schedule, pc >>

NextWave ==
    /\ Current = "compute_memos"
    /\ wave > 0
    /\ work # {}
    /\ \A n \in Computeds : ~ Ready(n)
    /\ work' = next_work
    /\ next_work' = {}
    /\ wave' = wave + 1
    /\ UNCHANGED << world, send_signal, trigger_flag, rebuild, signals,
                    processed, deferred, running, inflight, complete,
                    logged_in, schedule, pc, hist >>

EndPropagate ==
    /\ Current = "compute_memos"
    /\ wave > 0
    /\ work = {}
    /\ world' = CommitSubscribers(world)
    /\ processed' = {}
    /\ wave' = 0
    /\ Advance
    /\ UNCHANGED << send_signal, trigger_flag, rebuild, signals, work,
                    next_work, deferred, running, inflight, complete,
                    logged_in, schedule, hist >>

(***************************************************************************)
(* Phase 5, apply_deferred_effects: every flagged effect whose trigger     *)
(* list meets `triggered` or whose source list meets `changed` executes,   *)
(* a task only when it is not running.  A synchronous effect runs inline   *)
(* on the snapshot of its sources; a task is spawned and marked running.   *)
(***************************************************************************)
\* a qualification that ignores the running flag of a task
Qualifies_IgnoreRunning(effect) ==
    /\ effect \in deferred
    /\ \/ Range(triggers(effect)) \cap signals.triggered # {}
       \/ Range(sources(effect)) \cap signals.changed # {}

Qualifies(effect) ==
    /\ effect \in deferred
    /\ \/ Range(triggers(effect)) \cap signals.triggered # {}
       \/ Range(sources(effect)) \cap signals.changed # {}
    /\ effect \in Tasks => effect \notin running

\* how many times the phase executes an effect
Executions(effect) == IF Qualifies(effect) THEN 1 ELSE 0

Executed == { e \in Effects : Executions(e) > 0 }

\* the failures of the synchronous effects the phase executes
Failures ==
    { << e, EffectFailure >> : e \in
        { x \in Executed \cap SyncEffects :
            RunEffect(x, ReadAll(x, sources(x), world).args).kind = "Err" } }

ApplyDeferredEffects ==
    /\ Current = "apply_deferred_effects"
    /\ world' = CommitSubscribers(ReadAllOf(Executed, world))
    /\ logged_in' = IF "effect0" \in Executed
                    THEN ReadAll("effect0", sources("effect0"), world).args[1]
                    ELSE logged_in
    /\ running' = running \cup (Executed \cap Tasks)
    /\ inflight' = [ k \in Tasks |->
                       IF k \in Executed /\ inflight[k] < MaxInflight
                       THEN inflight[k] + Executions(k) ELSE inflight[k] ]
    /\ deferred' = {}
    /\ signals' = [ signals EXCEPT !.errors = @ \cup Failures ]
    /\ hist' = [ hist EXCEPT
                   !.runs = [ e \in Effects |->
                                IF hist.runs[e] + Executions(e) > MaxCount
                                THEN MaxCount
                                ELSE hist.runs[e] + Executions(e) ],
                   !.readers = [ c \in Cells |->
                                   @[c] \cup { e \in Executed :
                                                 c \in Range(sources(e)) } ] ]
    /\ Advance
    /\ UNCHANGED << send_signal, trigger_flag, rebuild, processed, wave, work,
                    next_work, complete, schedule >>

(***************************************************************************)
(* The specification                                                       *)
(***************************************************************************)
Next ==
    \/ \E s \in { "signal0", "signal1" } : \E v \in ValuesOf(s) : HostSend(s, v)
    \/ HostTrigger("signal2")
    \/ \E k \in Tasks : TaskFinish(k)
    \/ StartRun(lazy_signals_full_systems)
    \/ StartRun(lazy_signals_flush_systems)
    \/ EndRun
    \/ CheckTasks
    \/ InitEffects
    \/ InitComputeds
    \/ SendSignals
    \/ ComputeSeed
    \/ \E n \in Computeds : EvalComputed(n)
    \/ NextWave
    \/ EndPropagate
    \/ ApplyDeferredEffects

Spec == Init /\ [][Next]_vars

(***************************************************************************)
(* The cell on its own: the operations of LazyImmutable called in any      *)
(* order on one cell, as a client of the trait may call them.  A commit    *)
(* (merge_subscribers) closes the tick of the cell: the history of the     *)
(* tick starts afresh, and the callers of value() it commits have joined.  *)
(***************************************************************************)
TheCell == "signal1"
CellCallers == { "computed0", "effect0" }

PipelineIdle ==
    UNCHANGED << send_signal, trigger_flag, rebuild, signals, processed, wave,
                 work, next_work, deferred, running, inflight, complete,
                 logged_in, schedule, pc >>

CellMergeNext(next) ==
    /\ world' = [ world EXCEPT ![TheCell] = merge_next(@, next) ]
    /\ UNCHANGED hist
    /\ PipelineIdle

CellValue(caller) ==
    /\ world' = LazySignals_value(Some(TheCell), TypeOf(TheCell), caller,
                                  world).world
    /\ hist' = [ hist EXCEPT !.readers[TheCell] = @ \cup { caller } ]
    /\ PipelineIdle

CellSubscribe(caller) ==
    /\ world' = [ world EXCEPT ![TheCell] = subscribe(@, caller) ]
    /\ hist' = [ hist EXCEPT !.readers[TheCell] = @ \cup { caller } ]
    /\ PipelineIdle

CellMerge ==
    /\ world' = [ world EXCEPT ![TheCell] = merge(@).cell ]
    /\ hist' = [ hist EXCEPT
                   !.notified = @ \cup merge(world[TheCell]).subs,
                   !.fired = @ \/ merge(world[TheCell]).cell.data
                                    # world[TheCell].data ]
    /\ PipelineIdle

CellMergeSubscribers ==
    /\ world' = [ world EXCEPT ![TheCell] = merge_subscribers(@) ]
    /\ hist' = [ NoHistory EXCEPT
                   !.live = merge_subscribers(world[TheCell]).subscribers,
                   !.joined = hist.joined \cup hist.readers[TheCell] ]
    /\ PipelineIdle

CellNext ==
    \/ \E v \in ValuesOf(TheCell) : CellMergeNext(v)
    \/ \E n \in CellCallers : CellValue(n)
    \/ \E n \in CellCallers : CellSubscribe(n)
    \/ CellMerge
    \/ CellMergeSubscribers

CellSpec == Init /\ [][CellNext]_vars

(***************************************************************************)
(* The ticks of the pipeline with executions that never finish: no worker  *)
(* ever completes a task, and every run is a tick (the full chain).  The   *)
(* schedule runs the chain it has started: a system that can run does run  *)
(* (weak fairness on the systems of the chain); the host is under no       *)
(* obligation to write or to start a run.                                  *)
(***************************************************************************)
Systems ==
    \/ CheckTasks
    \/ InitEffects
    \/ InitComputeds
    \/ SendSignals
    \/ ComputeSeed
    \/ \E n \in Computeds : EvalComputed(n)
    \/ NextWave
    \/ EndPropagate
    \/ ApplyDeferredEffects

StuckNext ==
    \/ \E s \in { "signal0", "signal1" } : \E v \in ValuesOf(s) : HostSend(s, v)
    \/ HostTrigger("signal2")
    \/ StartRun(lazy_signals_full_systems)
    \/ EndRun
    \/ Systems

StuckSpec == Init /\ [][StuckNext]_vars /\ WF_vars(Systems)

(***************************************************************************)
(* The pipeline over the chain whose functions can fail: the host sends    *)
(* readings to signal3 and toggles the login flag, so that the chain of    *)
(* the example is at work next to the failing one.                         *)
(***************************************************************************)
FaultNext ==
    \/ \E s \in { "signal0", "signal3" } : \E v \in ValuesOf(s) : HostSend(s, v)
    \/ StartRun(lazy_signals_full_systems)
    \/ StartRun(lazy_signals_flush_systems)
    \/ EndRun
    \/ Systems

FaultSpec == Init /\ [][FaultNext]_vars

\* the ticks of that pipeline, the schedule running the chain it has started
FaultTickNext ==
    \/ \E s \in { "signal0", "signal3" } : \E v \in ValuesOf(s) : HostSend(s, v)
    \/ StartRun(lazy_signals_full_systems)
    \/ EndRun
    \/ Systems

FaultTickSpec == Init /\ [][FaultTickNext]_vars /\ WF_vars(Systems)

(***************************************************************************)
(* The ticks of the pipeline over the chain with the cycle: the host sends *)
(* to signal4 and to the login flag, and the schedule runs the chain it    *)
(* has started.                                                            *)
(***************************************************************************)
CycleNext ==
    \/ \E s \in { "signal0", "signal4" } : \E v \in ValuesOf(s) : HostSend(s, v)
    \/ StartRun(lazy_signals_full_systems)
    \/ EndRun
    \/ Systems

CycleSpec == Init /\ [][CycleNext]_vars /\ WF_vars(Systems)

(***************************************************************************)
(* The pipeline under repeated writes: between two runs the host sends to  *)
(* the login flag and to the message any number of times, a later send     *)
(* overwriting the value an earlier one staged.  The history keeps the     *)
(* value of the latest send and the staged values that were overwritten.   *)
(***************************************************************************)
CoalesceSend(signal, data) ==
    /\ pc = 0
    /\ world' = send(signal, data, world)
    /\ send_signal' = send_signal \cup { signal }
    /\ hist' = [ hist EXCEPT
                   !.last[signal] = Some(data),
                   !.dropped[signal] =
                       IF world[signal].next_value # None
                       THEN @ \cup { world[signal].next_value[1] } ELSE @ ]
    /\ UNCHANGED << trigger_flag, rebuild, signals, processed, wave, work,
                    next_work, deferred, running, inflight, complete,
                    logged_in, schedule, pc >>

CoalesceNext ==
    \/ \E s \in { "signal0", "signal1" } : \E v \in ValuesOf(s) :
          CoalesceSend(s, v)
    \/ StartRun(lazy_signals_full_systems)
    \/ StartRun(lazy_signals_flush_systems)
    \/ EndRun
    \/ Systems

CoalesceSpec == Init /\ [][CoalesceNext]_vars

(***************************************************************************)
(* The API on its own: a client reads cells with LazySignals.read and      *)
(* LazySignals.value, through handles that may be absent, may name an      *)
(* entity that is no cell (effect0) or may be asked for with the wrong     *)
(* type, while values are sent, merged and subscribers committed in any    *)
(* order.  The history keeps the call of the last step and its result.     *)
(***************************************************************************)
ApiCells == { "signal0", "signal1" }
Handles == { None } \cup { Some(e) : e \in ApiCells \cup { "effect0" } }
Types == { "bool", "str" }
ApiCallers == { "computed0" }

ApiRead(immutable, R) ==
    /\ world' = LazySignals_read(immutable, R, world).world
    /\ hist' = [ hist EXCEPT
                   !.call = [ op |-> "read", immutable |-> immutable,
                              type |-> R ],
                   !.result = LazySignals_read(immutable, R, world).result ]
    /\ PipelineIdle

ApiValue(immutable, R, caller) ==
    /\ world' = LazySignals_value(immutable, R, caller, world).world
    /\ hist' = [ hist EXCEPT
                   !.call = [ op |-> "value", immutable |-> immutable,
                              type |-> R ],
                   !.result = LazySignals_value(immutable, R, caller,
                                                world).result,
                   !.readers = [ c \in Cells |->
                                   IF immutable = Some(c) /\ Resolves(c, R, world)
                                   THEN @[c] \cup { caller } ELSE @[c] ] ]
    /\ PipelineIdle

ApiSend(signal, data) ==
    /\ world' = send(signal, data, world)
    /\ hist' = [ hist EXCEPT !.call = NoHistory.call ]
    /\ PipelineIdle

ApiMerge(cell) ==
    /\ world' = [ world EXCEPT ![cell] = merge(@).cell ]
    /\ hist' = [ hist EXCEPT !.call = NoHistory.call,
                             !.notified = @ \cup merge(world[cell]).subs ]
    /\ PipelineIdle

ApiCommit(cell) ==
    /\ world' = [ world EXCEPT ![cell] = merge_subscribers(@) ]
    /\ hist' = [ hist EXCEPT !.call = NoHistory.call ]
    /\ PipelineIdle

ApiNext ==
    \/ \E h \in Handles : \E R \in Types : ApiRead(h, R)
    \/ \E h \in Handles : \E R \in Types : \E n \in ApiCallers :
          ApiValue(h, R, n)
    \/ \E s \in ApiCells : \E v \in ValuesOf(s) : ApiSend(s, v)
    \/ \E c \in ApiCells : ApiMerge(c)
    \/ \E c \in ApiCells : ApiCommit(c)

ApiSpec == Init /\ [][ApiNext]_vars

(***************************************************************************)
(* The ticks of the pipeline with the task and the failing chain together: *)
(* the host sends readings to signal3 and fires the trigger, workers       *)
(* finish executions, and a reaped task toggles the login flag.            *)
(***************************************************************************)
TaskFaultNext ==
    \/ \E v \in ValuesOf("signal3") : HostSend("signal3", v)
    \/ HostTrigger("signal2")
    \/ \E k \in Tasks : TaskFinish(k)
    \/ StartRun(lazy_signals_full_systems)
    \/ EndRun
    \/ Systems

TaskFaultSpec == Init /\ [][TaskFaultNext]_vars

\* the positions of a run
FullRun == schedule = lazy_signals_full_systems
RunDone == Current = "done"
\* the step in which a system of the chain runs to its end
Runs(system) == Current = system /\ pc' = pc + 1

(***************************************************************************)
(* C1: within one run a Computed's derivation runs at most once, however   *)
(* many of its sources changed and however many waves reach it.            *)
(***************************************************************************)
C1_SingleFiring == \A c \in Computeds : hist.evals[c] <= 1

\* both sources of computed0 changed, computed0 changed in turn, and the
\* second wave reaches computed1, already evaluated in the first
C1_Witness ==
    /\ Current = "compute_memos"
    /\ wave = 2
    /\ { "signal0", "signal1", "computed0" } \subseteq signals.changed
    /\ "computed0" \in work
    /\ "computed1" \in processed \cap signals.dirty
    /\ hist.evals["computed0"] = 1
    /\ hist.evals["computed1"] = 1

(***************************************************************************)
(* C2: within one tick an Effect executes at most once, however many of    *)
(* its sources or triggers fired; after trigger calls on signal2 before    *)
(* the tick (three of them in particular), effect2, whose trigger list is  *)
(* [signal2], has executed exactly once when the tick is over.             *)
(***************************************************************************)
C2_EffectOnce ==
    /\ \A e \in Effects : hist.runs[e] <= 1
    /\ (RunDone /\ FullRun /\ hist.calls > 0) => hist.runs["effect2"] = 1

\* three trigger calls, one execution; effect0 ran once with both of its
\* sources changed
C2_Witness ==
    /\ RunDone /\ FullRun
    /\ hist.calls = 3
    /\ hist.runs["effect2"] = 1
    /\ { "signal0", "signal1" } \subseteq signals.changed
    /\ hist.runs["effect0"] = 1

(***************************************************************************)
(* C3: a Task has at most one execution in flight.  A trigger that arrives *)
(* while the Task is running starts nothing and cancels nothing; once the  *)
(* Task is reaped (its command applied, reading the signal as it is at     *)
(* that time), a triggered Task that is not running starts one execution.  *)
(***************************************************************************)
C3_OneInFlight ==
    \A k \in Tasks :
        /\ inflight[k] <= 1
        /\ inflight[k] = 1 <=> k \in running
        /\ hist.runs[k] <= 1

C3_Coalesced ==
    \A k \in Tasks :
        /\ (Runs("apply_deferred_effects") /\ k \in running)
             => /\ inflight'[k] = inflight[k]
                /\ hist'.runs[k] = hist.runs[k]
                /\ k \in running'
        /\ (Runs("apply_deferred_effects") /\ k \notin running
               /\ Range(triggers(k)) \cap signals.triggered # {})
             => /\ inflight'[k] = 1
                /\ hist'.runs[k] = 1
                /\ k \in running'
        /\ (Runs("check_tasks") /\ k \in Reaped)
             => /\ k \notin running'
                /\ inflight'[k] = 0
                /\ world'["signal0"].next_value
                     = Some(~ world["signal0"].data)

C3_AtMostOneTask == [](C3_OneInFlight) /\ [][C3_Coalesced]_vars

\* a trigger arrived while task0 was running: the tick is over and nothing
\* was started
C3_Witness ==
    /\ RunDone /\ FullRun
    /\ "signal2" \in signals.triggered
    /\ "task0" \in running
    /\ inflight["task0"] = 1
    /\ hist.runs["task0"] = 0

(***************************************************************************)
(* C4: sending a Signal a value equal to its current one is a no-op: the   *)
(* merge leaves its data and its live subscribers as they were and does    *)
(* not put it into `changed`; no Computed is evaluated and no Effect is    *)
(* executed unless one of its own sources is in `changed` (or, for an      *)
(* Effect, one of its triggers in `triggered`); and in a tick whose only   *)
(* writes are such sends nothing is notified, evaluated or executed and    *)
(* every cell keeps its data and its live subscribers to the end of the    *)
(* tick (the live set gains only the readers staged by value() calls).     *)
(***************************************************************************)
NoOp(s) == hist.sent[s] # None /\ hist.sent[s] = hist.old[s]

NoOpOnly ==
    /\ \E s \in Signals : hist.sent[s] # None
    /\ \A s \in Signals : hist.sent[s] # None => NoOp(s)
    /\ signals.triggered = {}

C4_Quiet ==
    /\ \A s \in Signals :
          NoOp(s) => /\ s \notin signals.changed
                     /\ Some(world[s].data) = hist.old[s]
    /\ \A n \in Computeds :
          hist.evals[n] > 0 => Range(sources(n)) \cap signals.changed # {}
    /\ \A e \in Effects :
          hist.runs[e] > 0
            => \/ Range(sources(e)) \cap signals.changed # {}
               \/ Range(triggers(e)) \cap signals.triggered # {}
    /\ NoOpOnly => /\ \A n \in Computeds : hist.evals[n] = 0
                   /\ \A e \in Effects : hist.runs[e] = 0
                   /\ hist.notified = {}
                   /\ signals.changed = {}
                   /\ signals.dirty = {}

C4_Step ==
    /\ Runs("send_signals")
         => \A s \in send_signal :
              world[s].next_value = Some(world[s].data)
                => /\ world'[s].data = world[s].data
                   /\ world'[s].subscribers = world[s].subscribers
                   /\ s \notin signals'.changed
    /\ NoOpOnly
         => \A c \in Cells :
              /\ world'[c].data = world[c].data
              /\ world[c].subscribers \subseteq world'[c].subscribers
              /\ world'[c].subscribers \cup world'[c].next_subscribers
                   = world[c].subscribers \cup world[c].next_subscribers

C4_NoOpStable == [](C4_Quiet) /\ [][C4_Step]_vars

\* a tick is over in which signal0, with subscribers, was sent its own value
C4_Witness ==
    /\ RunDone /\ FullRun
    /\ NoOpOnly
    /\ NoOp("signal0")
    /\ { "computed0", "effect0" } \subseteq world["signal0"].subscribers

(***************************************************************************)
(* C5: when a Computed is evaluated and the result equals its stored       *)
(* value, the evaluation notifies nobody: nothing is flagged dirty or      *)
(* deferred, the Computed joins neither `changed` nor the next wave, and   *)
(* its live subscribers stay; a cell joins `changed` only in a step that   *)
(* changes its data, and a Computed is evaluated only if one of its        *)
(* sources is in `changed`.                                                *)
(***************************************************************************)
C5_Suppressed ==
    /\ \A n \in Computeds :
          (hist'.evals[n] > hist.evals[n] /\ world'[n].data = world[n].data)
            => /\ signals'.dirty = signals.dirty
               /\ signals'.changed = signals.changed
               /\ deferred' = deferred
               /\ next_work' = next_work
               /\ hist'.notified = hist.notified
               /\ world'[n].subscribers = world[n].subscribers
    /\ \A c \in Cells :
          (c \in signals'.changed /\ c \notin signals.changed)
            => world'[c].data # world[c].data

C5_Downstream ==
    /\ \A n \in Computeds :
          hist.evals[n] > 0 => Range(sources(n)) \cap signals.changed # {}
    /\ \A e \in hist.flagged :
          \E n \in Computeds : n \in Range(sources(e)) \cap signals.changed

C5_GlitchSuppression == [](C5_Downstream) /\ [][C5_Suppressed]_vars

\* signal1 changed while signal0 is false: computed0 was evaluated to the
\* value it had, and the propagation ended without evaluating computed1
C5_Witness ==
    /\ Current = "compute_memos"
    /\ wave > 0 /\ work = {}
    /\ "signal1" \in signals.changed
    /\ hist.evals["computed0"] = 1
    /\ "computed0" \notin signals.changed
    /\ { "computed1", "effect1" } \subseteq world["computed0"].subscribers
    /\ hist.evals["computed1"] = 0
    /\ "effect1" \notin deferred

(***************************************************************************)
(* C6: when the propagation of a run is over, every Computed evaluated in  *)
(* the run holds the result of its derivation applied to the values its    *)
(* sources then hold; computed1 (sources signal0 and computed0) is not     *)
(* left with a value derived from computed0's value of before the run,     *)
(* whatever the order in which the ready nodes of a wave were taken.       *)
(***************************************************************************)
Snapshot(node) ==
    [ i \in 1..Len(sources(node)) |-> world[sources(node)[i]].data ]

C6_GlitchFree ==
    RunDone => \A n \in Computeds :
                  hist.evals[n] > 0
                    => world[n].data = Derive(n, Snapshot(n)).val

(***************************************************************************)
(* C7: a send that changes a Signal in send_signals is delivered in the    *)
(* same run: the merge flags every live subscriber of the Signal; when the *)
(* run is over the Signal holds the sent value and every Computed flagged  *)
(* has been evaluated once, from the new values of its Signal sources;     *)
(* and when a tick is over every Effect notified by a Computed whose value *)
(* changed has executed exactly once.                                      *)
(***************************************************************************)
C7_Flagged ==
    /\ Runs("send_signals")
         => \A s \in send_signal :
              world[s].next_value # Some(world[s].data)
                => /\ world[s].subscribers \cap Computeds
                        \subseteq signals'.dirty
                   /\ world[s].subscribers \cap Effects \subseteq deferred'
    /\ \A n \in Computeds :
          (hist'.evals[n] > hist.evals[n] /\ world'[n].data # world[n].data)
            => world[n].subscribers \cap Effects \subseteq hist'.flagged

C7_Delivered ==
    RunDone
      => /\ \A s \in Signals :
               hist.sent[s] # None => Some(world[s].data) = hist.sent[s]
         /\ \A n \in signals.dirty :
               /\ hist.evals[n] = 1
               /\ \A i \in 1..Len(sources(n)) :
                     sources(n)[i] \in Signals
                       => hist.seen[n][i] = world[sources(n)[i]].data
         /\ FullRun => \A e \in hist.flagged : hist.runs[e] = 1

C7_SameTickDelivery == [](C7_Delivered) /\ [][C7_Flagged]_vars

\* signal0 was false and was sent true: the tick is over, signal0 is true,
\* computed0 holds the message and effect1, notified by computed0, ran once
C7_Witness ==
    /\ RunDone /\ FullRun
    /\ hist.old["signal0"] = Some(FALSE)
    /\ hist.sent["signal0"] = Some(TRUE)
    /\ world["signal0"].data = TRUE
    /\ world["computed0"].data = "msg1"
    /\ "computed0" \in signals.changed
    /\ "effect1" \in hist.flagged
    /\ hist.runs["effect1"] = 1

(***************************************************************************)
(* C8 as stated: a caller of value() in the tick in which the cell changes *)
(* is not notified by that tick's merge unless it was already live, and    *)
(* once its subscription is committed it is notified by every later        *)
(* change of the cell.                                                     *)
(***************************************************************************)
Changes(c) == world'[c].data # world[c].data

C8_AllLater ==
    \A c \in Cells :
        Changes(c)
          => /\ \A n \in world[c].next_subscribers \ world[c].subscribers :
                   n \notin hist'.notified \ hist.notified
             /\ hist.joined \subseteq hist'.notified

C8_EverySubsequentChange == [][C8_AllLater]_vars

(***************************************************************************)
(* C8: value() only stages its caller: the merges of a tick notify no      *)
(* node that was not live when the tick began, so a caller that was not    *)
(* live is not notified in the tick of its call; the commit makes every    *)
(* staged caller live, and the next change of the cell notifies exactly    *)
(* the live subscribers and empties the live set: a node is notified of    *)
(* the change after that only if it has called value() again.              *)
(***************************************************************************)
C8_FromNextTick == hist.notified \subseteq hist.live

C8_Staged ==
    \A c \in Cells :
        /\ world'[c].subscribers # world[c].subscribers
             => \/ Changes(c) /\ world'[c].subscribers = {}
                \/ /\ world'[c].subscribers
                        = world[c].subscribers \cup world[c].next_subscribers
                   /\ world'[c].next_subscribers = {}
        /\ Changes(c)
             => /\ hist'.notified = hist.notified \cup world[c].subscribers
                /\ world'[c].subscribers = {}
                /\ world'[c].next_subscribers = world[c].next_subscribers
        /\ (world[c].next_subscribers # {} /\ world'[c].next_subscribers = {})
             => world[c].next_subscribers \subseteq world'[c].subscribers

C8_CommitOrdering == [](C8_FromNextTick) /\ [][C8_Staged]_vars

\* effect0 called value() in a tick in which the cell changed and was not
\* notified, while computed0, live since an earlier tick, was
C8_Witness ==
    /\ hist.fired
    /\ "effect0" \in hist.readers[TheCell]
    /\ "effect0" \in world[TheCell].next_subscribers
    /\ "effect0" \notin hist.notified
    /\ "computed0" \in hist.joined
    /\ "computed0" \in hist.notified

(***************************************************************************)
(* C9: within a run the phases follow one another in the fixed order reap  *)
(* tasks, establish subscriptions, apply writes, propagate, run effects (a *)
(* tick runs all five, a flush stops after the fourth); a phase is left    *)
(* only when its work is done, is never gone back to, and no run starts    *)
(* while another is under way.                                             *)
(***************************************************************************)
Phase ==
    CASE Current = "check_tasks" -> 1
      [] Current \in { "init_effects", "init_computeds" } -> 2
      [] Current = "send_signals" -> 3
      [] Current = "compute_memos" -> 4
      [] Current = "apply_deferred_effects" -> 5
      [] OTHER -> 0

C9_Sequential ==
    /\ Phase' # Phase
         => \/ Phase = 0 /\ Phase' = 1
            \/ Phase \in 1..4 /\ Phase' = Phase + 1
            \/ Phase = 5 /\ Phase' = 0
            \/ Phase = 4 /\ Phase' = 0 /\ ~ FullRun
    /\ (Phase = 1 /\ Phase' # 1)
         => \A k \in Tasks : k \in running' => k \notin complete'
    /\ (Phase = 2 /\ Phase' # 2) => rebuild' = {}
    /\ (Phase = 3 /\ Phase' # 3)
         => /\ send_signal' = {}
            /\ \A c \in Cells : world'[c].next_value = None
    /\ (Phase = 4 /\ Phase' # 4)
         => /\ work = {}
            /\ \A n \in signals.dirty : hist.evals[n] = 1
            /\ \A c \in Cells : world'[c].next_subscribers = {}
    /\ (Phase = 5 /\ Phase' # 5) => deferred' = {}
    /\ schedule' # schedule => pc = 0 \/ RunDone

C9_PhaseOrder == [][C9_Sequential]_vars

\* the fifth phase of a tick is about to run: a task was reaped, the writes
\* are merged, the computeds are propagated and the effects are waiting
C9_Witness ==
    /\ FullRun
    /\ Phase = 5
    /\ hist.evals["computed0"] = 1
    /\ hist.evals["computed1"] = 1
    /\ { "effect0", "effect1", "effect2" } \subseteq deferred
    /\ hist.runs["effect0"] = 0

(***************************************************************************)
(* C10: send_signals puts every cell with a staged trigger into            *)
(* `triggered`, whether or not its merge changes the value, and the        *)
(* effects phase of that tick executes every synchronous Effect, and       *)
(* every Task that is not running, whose trigger list holds a triggered    *)
(* cell.                                                                   *)
(***************************************************************************)
C10_Step ==
    /\ Runs("send_signals")
         => \A s \in send_signal \cap trigger_flag : s \in signals'.triggered
    /\ Runs("apply_deferred_effects")
         => \A e \in Effects :
              (/\ Range(triggers(e)) \cap signals.triggered # {}
               /\ e \in Tasks => e \notin running)
                => hist'.runs[e] = hist.runs[e] + 1

C10_TriggerSemantics == [][C10_Step]_vars

\* signal2 was triggered and did not change: the tick is over, effect2 and
\* task0 have executed
C10_Witness ==
    /\ RunDone /\ FullRun
    /\ "signal2" \in signals.triggered
    /\ "signal2" \notin signals.changed
    /\ hist.runs["effect2"] = 1
    /\ hist.runs["task0"] = 1

(***************************************************************************)
(* C11: the pipeline never waits for an execution.  With executions that   *)
(* never finish, every run that has started reaches its end (a tick after  *)
(* all five phases); a running task stays running with its one execution   *)
(* in flight and is never spawned again; and the other nodes are processed *)
(* as usual: every computed flagged dirty is evaluated once in the run,    *)
(* and every synchronous effect that qualifies is executed by the effects  *)
(* phase.                                                                  *)
(***************************************************************************)
C11_Completes == (pc > 0) ~> RunDone

C11_Stuck ==
    /\ \A k \in running :
          /\ k \in running'
          /\ inflight[k] = 1
          /\ inflight'[k] = 1
          /\ hist'.runs[k] <= hist.runs[k]
    /\ (Runs("apply_deferred_effects") /\ running # {})
         => \A e \in SyncEffects :
              (/\ e \in deferred
               /\ \/ Range(triggers(e)) \cap signals.triggered # {}
                  \/ Range(sources(e)) \cap signals.changed # {})
                => hist'.runs[e] = hist.runs[e] + 1

C11_Processed ==
    /\ complete = {}
    /\ (RunDone /\ running # {})
         => \A n \in signals.dirty : hist.evals[n] = 1

C11_NeverBlocks ==
    C11_Completes /\ [](C11_Processed) /\ [][C11_Stuck]_vars

\* task0 is running and was triggered again: the tick is over, task0 was
\* not spawned, effect2 ran and both computeds were evaluated
C11_Witness ==
    /\ RunDone /\ FullRun
    /\ "task0" \in running
    /\ "signal2" \in signals.triggered
    /\ hist.runs["task0"] = 0
    /\ hist.runs["effect2"] = 1
    /\ hist.evals["computed0"] = 1
    /\ hist.evals["computed1"] = 1
    /\ hist.runs["effect1"] = 1

(***************************************************************************)
(* C12: a task writes to the store through its command queue only.  The    *)
(* step in which an execution finishes changes no cell and nothing of the  *)
(* tick resource; a running flag is cleared by check_tasks only, for a     *)
(* task whose execution has finished, and that same step applies the       *)
(* task's commands: the toggle is staged on signal0 (no data and no        *)
(* subscriber set changes); the data of a Signal changes only when         *)
(* send_signals merges the staged value.                                   *)
(***************************************************************************)
C12_Step ==
    /\ \A k \in Tasks :
          (k \notin complete /\ k \in complete')
            => /\ world' = world
               /\ signals' = signals
               /\ send_signal' = send_signal
               /\ trigger_flag' = trigger_flag
               /\ running' = running
               /\ logged_in' = logged_in
    /\ \A k \in Tasks :
          (k \in running /\ k \notin running')
            => Runs("check_tasks") /\ k \in complete
    /\ Runs("check_tasks")
         => /\ running' = running \ Reaped
            /\ \A c \in Cells :
                  /\ world'[c].data = world[c].data
                  /\ world'[c].subscribers = world[c].subscribers
                  /\ world'[c].next_subscribers = world[c].next_subscribers
            /\ Reaped # {}
                 => /\ world'["signal0"].next_value
                         = Some(~ world["signal0"].data)
                    /\ "signal0" \in send_signal'
            /\ Reaped = {} => world' = world /\ send_signal' = send_signal
    /\ \A s \in Signals :
          world'[s].data # world[s].data
            => /\ Runs("send_signals")
               /\ world[s].next_value = Some(world'[s].data)

C12_SingleWriter == [][C12_Step]_vars

\* task0 was reaped by this run: it is no longer running, and the toggle
\* its command staged was merged by send_signals
C12_Witness ==
    /\ RunDone
    /\ hist.reaped = { "task0" }
    /\ "task0" \notin running
    /\ "signal0" \in signals.changed
    /\ hist.sent["signal0"] = Some(~ hist.old["signal0"][1])
    /\ world["signal0"].data = ~ hist.old["signal0"][1]

(***************************************************************************)
(* C13: a failed derivation is data.  When the derivation of a Computed    *)
(* returns Err on the snapshot of its sources, the evaluation stores the   *)
(* error value in the Computed's cell through the same stage-and-merge as  *)
(* an Ok value, records the failure in `errors`, and, if the stored value  *)
(* changed, puts the Computed into `changed` and the next wave and flags   *)
(* its live subscribers; when such a tick is over, the effect that was a   *)
(* live subscriber of the Computed, and so was flagged, has executed on    *)
(* the error value.                                                        *)
(***************************************************************************)
Evaluated(n) == hist'.evals[n] > hist.evals[n]

C13_Stored ==
    \A n \in Computeds :
        (Evaluated(n) /\ Derive(n, Snapshot(n)).kind = "Err")
          => /\ world'[n].data = Derive(n, Snapshot(n)).val
             /\ world'[n].next_value = None
             /\ << n, Derive(n, Snapshot(n)).val >> \in signals'.errors
             /\ world[n].data # Derive(n, Snapshot(n)).val
                  => /\ n \in signals'.changed
                     /\ n \in next_work'
                     /\ world[n].subscribers \cap Effects \subseteq deferred'
                     /\ world[n].subscribers \cap Computeds
                          \subseteq signals'.dirty
                     /\ world[n].subscribers \subseteq hist'.notified

C13_Observed ==
    (/\ RunDone /\ FullRun
     /\ << "computed2", DerivationFailure >> \in signals.errors
     /\ "computed2" \in signals.changed
     /\ "effect3" \in hist.flagged)
      => /\ world["computed2"].data = DerivationFailure
         /\ hist.runs["effect3"] = 1
         /\ "effect3" \in hist.readers["computed2"]
         /\ << "effect3", EffectFailure >> \in signals.errors

C14_Completes ==
    (pc > 1 /\ signals.errors # {}) ~> (RunDone /\ signals.errors # {})

C14_Effects ==
    Runs("apply_deferred_effects")
      => /\ \A e \in SyncEffects :
               /\ hist'.runs[e] = hist.runs[e] + 1
                    <=> /\ e \in deferred
                        /\ Range(sources(e)) \cap signals.changed # {}
               /\ (/\ hist'.runs[e] > hist.runs[e]
                   /\ RunEffect(e, Snapshot(e)).kind = "Err")
                    => << e, EffectFailure >> \in signals'.errors
         /\ signals.errors \subseteq signals'.errors
         /\ hist'.runs["effect0"] > hist.runs["effect0"]
              => logged_in' = world["signal0"].data

C14_Unaffected ==
    (RunDone /\ FullRun)
      => /\ hist.evals["computed0"] = 1 <=> "signal0" \in signals.changed
         /\ hist.evals["computed0"] = 1
              => world["computed0"].data
                   = Derive("computed0", Snapshot("computed0")).val
         /\ hist.runs["effect0"] = 1 <=> "signal0" \in signals.changed
         /\ hist.evals["computed1"] = 1
              <=> { "signal0", "computed0" } \cap signals.changed # {}
         /\ hist.runs["effect1"] = 1
              <=> { "signal0", "computed0" } \cap signals.changed # {}

IsCall == hist.call.op \in { "read", "value" }

C15_Result ==
    IsCall
      => IF hist.call.immutable = None
         THEN hist.result = [ kind |-> "Err", val |-> NoSignalError ]
         ELSE IF Resolves(hist.call.immutable[1], hist.call.type, world)
         THEN hist.result
                = [ kind |-> "Ok", val |-> world[hist.call.immutable[1]].data ]
         ELSE hist.result
                = [ kind |-> "Err",
                    val |-> ReadError(hist.call.immutable[1]) ]

C15_Frame ==
    (hist'.call.op \in { "read", "value" } /\ hist'.result.kind = "Err")
      => \A c \in Cells :
            /\ world'[c].data = world[c].data
            /\ world'[c].next_value = world[c].next_value
            /\ world'[c].subscribers = world[c].subscribers
            /\ world'[c].next_subscribers = world[c].next_subscribers

C16_Committed ==
    /\ (hist.call.op = "read" /\ hist.result.kind = "Ok")
         => hist.result.val = world[hist.call.immutable[1]].data
    /\ \A c \in Cells :
          world[c].subscribers \cup world[c].next_subscribers
            \subseteq hist.readers[c]
    /\ hist.notified \subseteq UNION { hist.readers[c] : c \in Cells }

C16_Frame == hist'.call.op = "read" => world' = world

C16_ReadOnly == [](C16_Committed) /\ [][C16_Frame]_vars

\* signal1 has a live subscriber and a staged value that differs from its
\* data; it was read, the data came back and nothing is staged as a
\* subscriber
C16_Witness ==
    /\ hist.call = [ op |-> "read", immutable |-> Some("signal1"),
                     type |-> "str" ]
    /\ world["signal1"].next_value = Some("msg2")
    /\ hist.result = [ kind |-> "Ok", val |-> "msg1" ]
    /\ world["signal1"].subscribers = { "computed0" }
    /\ world["signal1"].next_subscribers = {}

(***************************************************************************)
(* C17: check_tasks, the first system of a tick, empties changed, dirty,   *)
(* triggered and errors, so that from then on the four sets hold only what *)
(* this tick has recorded; the reset leaves the running flags alone: a     *)
(* running task stays running from tick to tick, and its flag is cleared   *)
(* only by check_tasks, when its execution has finished.                   *)
(***************************************************************************)
C17_Reset ==
    /\ Runs("check_tasks")
         => /\ signals' = LazySignalsResource
            /\ running' = running \ complete
    /\ \A k \in Tasks :
          (k \in running /\ k \notin running')
            => Runs("check_tasks") /\ k \in complete

C17_Fresh ==
    pc >= 2
      => /\ pc = 2 => signals = LazySignalsResource
         /\ \A s \in signals.changed \cap Signals :
               hist.sent[s] # None /\ hist.sent[s] # hist.old[s]
         /\ \A n \in signals.changed \cap Computeds : hist.evals[n] = 1
         /\ signals.dirty \subseteq hist.notified
         /\ signals.triggered # {} => hist.calls > 0
         /\ \A e \in signals.errors :
               \/ e[1] \in Computeds /\ hist.evals[e[1]] = 1
               \/ e[1] \in Effects /\ hist.runs[e[1]] = 1

C17_Lifecycle == [](C17_Fresh) /\ [][C17_Reset]_vars

\* the tick before left something in each of the four sets and task0 is
\* running, its execution unfinished: check_tasks has run, the sets are
\* empty and task0 is still running
C17_Witness ==
    /\ Current = "init_effects"
    /\ hist.wiped
    /\ signals = LazySignalsResource
    /\ "task0" \in running
    /\ "task0" \notin complete

(***************************************************************************)
(* C18: merge against its reference definition, in every state of the      *)
(* cell.  With a staged value that differs from the data: the data becomes *)
(* the staged value, the set returned is the live subscriber set of before *)
(* the call, and the live set is empty afterwards.  With no staged value,  *)
(* or one equal to the data: nothing is returned and data and live         *)
(* subscribers stay.  In both cases the staged value is gone afterwards    *)
(* and the staged subscribers are as before.  The merge step of the cell   *)
(* does what the function says.                                            *)
(***************************************************************************)
MergeCommits(self) ==
    self.next_value # None /\ self.next_value[1] # self.data

C18_Function ==
    LET self == world[TheCell]
        m == merge(self)
    IN  /\ MergeCommits(self)
             => /\ m.cell.data = self.next_value[1]
                /\ m.subs = self.subscribers
                /\ m.cell.subscribers = {}
        /\ ~ MergeCommits(self)
             => /\ m.subs = {}
                /\ m.cell.data = self.data
                /\ m.cell.subscribers = self.subscribers
        /\ m.cell.next_value = None
        /\ m.cell.next_subscribers = self.next_subscribers

C18_Step ==
    (world[TheCell].next_value # None /\ world'[TheCell].next_value = None)
      => /\ world'[TheCell].next_subscribers
              = world[TheCell].next_subscribers
         /\ IF MergeCommits(world[TheCell])
            THEN /\ world'[TheCell].data = world[TheCell].next_value[1]
                 /\ world'[TheCell].subscribers = {}
                 /\ hist'.notified
                      = hist.notified \cup world[TheCell].subscribers
            ELSE /\ world'[TheCell].data = world[TheCell].data
                 /\ world'[TheCell].subscribers = world[TheCell].subscribers
                 /\ hist'.notified = hist.notified

C18_MergeReference == [](C18_Function) /\ [][C18_Step]_vars

\* a merge has committed a new value: both live subscribers were returned,
\* the live set is empty and the staged subscriber is still staged
C18_Witness ==
    /\ hist.fired
    /\ hist.notified = { "computed0", "effect0" }
    /\ world[TheCell].data = "msg2"
    /\ world[TheCell].next_value = None
    /\ world[TheCell].subscribers = {}
    /\ world[TheCell].next_subscribers = { "effect0" }

(***************************************************************************)
(* C19: merge_next only stages.  In every state, merge_next(v) on a cell   *)
(* gives the same cell with v as its staged value, read() returns the same *)
(* data after it, and returns v once merge has run.  A send or a trigger   *)
(* call of the host changes the staged value of its cell and marks the     *)
(* cell for send_signals; the data and the subscriber sets of every cell   *)
(* and the tick resource (changed, dirty, triggered, errors) stay as they  *)
(* were.  The data of a Signal changes only when send_signals merges, to   *)
(* the value staged last.                                                  *)
(***************************************************************************)
C19_Function ==
    \A c \in Signals : \A v \in ValuesOf(c) :
        /\ merge_next(world[c], v) = [ world[c] EXCEPT !.next_value = Some(v) ]
        /\ read(merge_next(world[c], v)) = read(world[c])
        /\ read(merge(merge_next(world[c], v)).cell) = v

C19_Step ==
    /\ (pc = 0 /\ world' # world)
         => /\ signals' = signals
            /\ send_signal \subseteq send_signal'
            /\ \A c \in Cells :
                  /\ world'[c].data = world[c].data
                  /\ world'[c].subscribers = world[c].subscribers
                  /\ world'[c].next_subscribers = world[c].next_subscribers
                  /\ world'[c].next_value # world[c].next_value
                       => /\ world'[c].next_value # None
                          /\ c \in send_signal'
    /\ \A s \in Signals :
          world'[s].data # world[s].data
            => /\ Runs("send_signals")
               /\ world[s].next_value = Some(world'[s].data)
               /\ world'[s].next_value = None

C19_StageOnly == [](C19_Function) /\ [][C19_Step]_vars

\* "msg2" is staged on signal1 between two runs: signal1 still holds
\* "msg1", has its subscribers and is not in `changed`
C19_Witness ==
    /\ pc = 0
    /\ world["signal1"].next_value = Some("msg2")
    /\ world["signal1"].data = "msg1"
    /\ "signal1" \in send_signal
    /\ { "computed0", "effect0" } \subseteq world["signal1"].subscribers
    /\ signals.changed = {}
    /\ signals.triggered = {}

(***************************************************************************)
(* C20: the subscribers are double-buffered.  In every state of the cell,  *)
(* subscribe(caller) and value(caller) give the same cell with the caller  *)
(* added to next_subscribers and nothing else changed; merge and           *)
(* get_subscribers return the same set, and merge leaves the same live     *)
(* set, whatever next_subscribers holds; and after value() calls by any    *)
(* set of callers, merge returns what it would have returned without them. *)
(* A step that adds a handle to subscribers is a merge_subscribers call,   *)
(* and it adds exactly the handles of next_subscribers; a step that stages *)
(* a caller leaves subscribers and the result of the next merge as they    *)
(* were.                                                                   *)
(***************************************************************************)
C20_Function ==
    LET self == world[TheCell]
    IN /\ \A n \in CellCallers :
             /\ subscribe(self, n)
                  = [ self EXCEPT !.next_subscribers = @ \cup { n } ]
             /\ value(self, n).cell = subscribe(self, n)
             /\ value(self, n).val = self.data
       /\ \A staged \in SUBSET CellCallers :
             LET other == [ self EXCEPT !.next_subscribers = staged ]
             IN /\ get_subscribers(other) = get_subscribers(self)
                /\ merge(other).subs = merge(self).subs
                /\ merge(other).cell.subscribers = merge(self).cell.subscribers
                /\ merge(other).cell.data = merge(self).cell.data
                /\ merge(other).cell.next_subscribers = staged
       /\ \A callers \in SUBSET CellCallers :
             /\ merge(ReadBy(callers, self)).subs = merge(self).subs
             /\ get_subscribers(ReadBy(callers, self)) = get_subscribers(self)

C20_Step ==
    LET self == world[TheCell]
        after == world'[TheCell]
    IN /\ ~ (after.subscribers \subseteq self.subscribers)
            => /\ after = merge_subscribers(self)
               /\ after.subscribers
                    = self.subscribers \cup self.next_subscribers
               /\ after.next_subscribers = {}
       /\ ( /\ self.next_subscribers \subseteq after.next_subscribers
            /\ after.next_subscribers # self.next_subscribers )
            => /\ after.subscribers = self.subscribers
               /\ merge(after).subs = merge(self).subs
               /\ after.data = self.data
               /\ after.next_value = self.next_value

C20_DoubleBuffered == [](C20_Function) /\ [][C20_Step]_vars

\* a change is staged on a cell whose live subscriber is effect0 while
\* computed0 is staged only: the merge returns effect0 alone
C20_Witness ==
    /\ world[TheCell].subscribers = { "effect0" }
    /\ world[TheCell].next_subscribers = { "computed0" }
    /\ world[TheCell].next_value # None
    /\ merge(world[TheCell]).subs = { "effect0" }
    /\ hist.readers[TheCell] = { "computed0" }

(***************************************************************************)
(* C21: establish-new-subscriptions.  The step of init_effects             *)
(* (init_computeds) leaves every effect (computed) that carried the        *)
(* rebuild mark in the live subscribers of each of its declared sources    *)
(* and triggers, and takes the mark away.  A node leaves the live          *)
(* subscribers of a cell only in a step that changes the data of the cell, *)
(* and that step flags every live subscriber of the cell (a computed       *)
(* dirty, an effect deferred): so the first change after the phase         *)
(* notifies the node, whether it has read the cell or not.  A declared     *)
(* handle that is no cell (here: the entity of an effect) is skipped: the  *)
(* helper, called for a marked node in a state in which the phase runs,    *)
(* returns the world as it is, and a source list that contains such a      *)
(* handle subscribes the node to the cells in it.                          *)
(***************************************************************************)
Declared(n) == Range(sources(n) \o triggers(n))

C21_Step ==
    /\ \A n \in Consumers :
          (n \in rebuild /\ n \notin rebuild')
            => /\ Runs(IF n \in Effects THEN "init_effects"
                       ELSE "init_computeds")
               /\ \A c \in Declared(n) \cap Cells :
                     n \in world'[c].subscribers
    /\ (Runs("init_effects") \/ Runs("init_computeds"))
         => \A c \in Cells : /\ world'[c].data = world[c].data
                             /\ world'[c].next_value = world[c].next_value
    /\ \A c \in Cells : \A n \in Consumers :
          (n \in world[c].subscribers /\ n \notin world'[c].subscribers)
            => /\ world'[c].data # world[c].data
               /\ n \in signals'.dirty \cup deferred'

C21_Skips ==
    Current \in { "init_effects", "init_computeds" }
      => \A n \in rebuild : \A h \in Effects :
            /\ subscribe_to_source(n, h, world) = world
            /\ SubscribeAll(n, << h >> \o sources(n) \o triggers(n), world)
                 = SubscribeAll(n, sources(n) \o triggers(n), world)
            /\ \A c \in Declared(n) :
                  n \in SubscribeAll(n, << h, c >>, world)[c].subscribers

C21_NewSubscriptions == [](C21_Skips) /\ [][C21_Step]_vars

\* the first run, after init_effects and before init_computeds: effect0 and
\* task0 are live subscribers of their sources and trigger, no computed is
\* yet, and a change of signal1 is staged
C21_Witness ==
    /\ Current = "init_computeds"
    /\ rebuild = Computeds
    /\ "effect0" \in world["signal0"].subscribers
    /\ "effect0" \in world["signal1"].subscribers
    /\ "task0" \in world["signal2"].subscribers
    /\ "computed0" \notin world["signal1"].subscribers
    /\ world["signal1"].next_value = Some("msg2")
    /\ hist.readers["signal1"] = {}

(***************************************************************************)
(* C22, as stated: a handle is in the subscribers or the next_subscribers  *)
(* of a cell only if that consumer has read the cell with value().         *)
(* Stated for the first run after creation (some node still carries the    *)
(* rebuild mark), in which the history of the run holds every read made    *)
(* so far.                                                                 *)
(***************************************************************************)
Members(c) == world[c].subscribers \cup world[c].next_subscribers

C22_OnlyByValue ==
    rebuild # {}
      => \A c \in Cells : Members(c) \subseteq hist.readers[c]

(***************************************************************************)
(* C22, amended: a consumer joins the notification set of a cell by a      *)
(* value() read of the cell or by the subscribe call that                  *)
(* establish-new-subscriptions makes for each declared source and trigger  *)
(* of a marked node, and by no other path.  In every state the members of  *)
(* subscribers and next_subscribers of a cell have declared the cell as a  *)
(* source or a trigger; a step in which a handle joins is a read of the    *)
(* cell by that consumer, or the phase taking the consumer's mark; and     *)
(* next_subscribers holds readers of the run only.                         *)
(***************************************************************************)
C22_Declared ==
    \A c \in Cells :
        /\ \A n \in Members(c) : c \in Declared(n)
        /\ world[c].next_subscribers \subseteq hist.readers[c]

C22_Step ==
    \A c \in Cells :
        world'[c] # world[c] => \A n \in Members(c)' \ Members(c) :
             \/ /\ n \in hist'.readers[c]
                /\ n \notin hist.readers[c]
                /\ c \in Range(sources(n))
                /\ Runs("apply_deferred_effects") \/ Current = "compute_memos"
             \/ /\ n \in rebuild
                /\ n \notin rebuild'
                /\ c \in Declared(n)
                /\ n \in world'[c].subscribers
                /\ n \notin hist'.readers[c]

C22_JoinPaths == [](C22_Declared) /\ [][C22_Step]_vars

\* the end of a tick: computed1 is a live subscriber of computed0, which it
\* has read in the tick; task0 and effect2 are live subscribers of their
\* trigger signal2, which nobody has read
C22_Witness ==
    /\ Current = "done"
    /\ "computed1" \in world["computed0"].subscribers
    /\ "computed1" \in hist.readers["computed0"]
    /\ { "task0", "effect2" } \subseteq world["signal2"].subscribers
    /\ hist.readers["signal2"] = {}

(***************************************************************************)
(* C23: from the start of compute_memos to the end of the run, and so at   *)
(* the end of the propagation, `changed` is exactly the set of the Signals *)
(* and Computeds whose data differs from the data they held when           *)
(* send_signals began to merge.  Step by step: a cell enters `changed` in  *)
(* the step that changes its data and in no other, and a cell in `changed` *)
(* does not change again in the run.                                       *)
(***************************************************************************)
Differs(c) == hist.old[c] # None /\ hist.old[c] # Some(world[c].data)

C23_Exact ==
    pc >= 5 => signals.changed = { c \in Cells : Differs(c) }

C23_Step ==
    pc > 1 =>
      \A c \in Cells :
          /\ world'[c].data # world[c].data
               <=> (c \in signals'.changed /\ c \notin signals.changed)
          /\ (c \in signals.changed /\ pc' # 0) => c \in signals'.changed

Sent == { s \in Signals : hist.last[s] # None }

C24_Step ==
    /\ (pc = 0 /\ world' # world)
         => \A c \in Cells : world'[c].data = world[c].data
    /\ Runs("send_signals")
         => \A s \in Sent :
              /\ s \in send_signal
              /\ Some(world'[s].data) = hist.last[s]
              /\ world'[s].next_value = None
              /\ world'[s].data \notin hist.dropped[s] \ { hist.last[s][1] }
              /\ hist.last[s] = Some(world[s].data)
                   => /\ merge(world[s]).subs = {}
                      /\ s \notin signals'.changed
                      /\ world'[s].subscribers = world[s].subscribers
              /\ hist.last[s] # Some(world[s].data)
                   => /\ merge(world[s]).subs = world[s].subscribers
                      /\ s \in signals'.changed
    /\ \A s \in Signals :
          world'[s].data # world[s].data => Runs("send_signals")

C24_Committed ==
    pc >= 5 =>
      /\ \A s \in Sent : Some(world[s].data) = hist.last[s]
      /\ hist.seen["computed0"] # << >>
           => hist.seen["computed0"]
                = << world["signal0"].data, world["signal1"].data >>
      /\ hist.seen["computed1"] # << >>
           => hist.seen["computed1"][1] = world["signal0"].data
      /\ \A c \in Computeds : hist.evals[c] <= 1
      /\ \A e \in Effects : hist.runs[e] <= 1

C24_LastWriteWins == [](C24_Committed) /\ [][C24_Step]_vars

\* after the merge of a run before which "msg2" was staged on signal1 and
\* then overwritten with the message the cell held, and the login flag was
\* sent FALSE and then TRUE: signal1 is unchanged, signal0 holds TRUE
C24_Witness ==
    /\ pc >= 5
    /\ hist.dropped["signal1"] = { "msg2" }
    /\ hist.last["signal1"] = Some("msg1")
    /\ world["signal1"].data = "msg1"
    /\ "signal1" \notin signals.changed
    /\ hist.dropped["signal0"] = { FALSE }
    /\ world["signal0"].data = TRUE
    /\ "signal0" \in signals.changed
    /\ hist.evals["computed0"] = 1

(***************************************************************************)
(* C25: merge_subscribers commits and clears.  In every state of the cell, *)
(* the cell after merge_subscribers has the union of subscribers and       *)
(* next_subscribers as its subscribers, an empty next_subscribers, and the *)
(* data and the staged value it had; a second call in a row returns the    *)
(* same cell; and a handle staged twice is committed once (the live set    *)
(* grows by at most that one handle).  The commit step of the cell does    *)
(* what the function says.                                                 *)
(***************************************************************************)
C25_Function ==
    LET self == world[TheCell]
        after == merge_subscribers(self)
    IN /\ after.subscribers = self.subscribers \cup self.next_subscribers
       /\ after.next_subscribers = {}
       /\ after.data = self.data
       /\ after.next_value = self.next_value
       /\ merge_subscribers(after) = after
       /\ \A n \in CellCallers :
             LET twice == merge_subscribers(subscribe(subscribe(self, n), n))
             IN /\ twice = merge_subscribers(subscribe(self, n))
                /\ twice.subscribers = after.subscribers \cup { n }
                /\ Cardinality(twice.subscribers)
                     = Cardinality(after.subscribers \ { n }) + 1

C25_Step ==
    LET self == world[TheCell]
        after == world'[TheCell]
    IN (self.next_subscribers # {} /\ after.next_subscribers = {})
         => /\ after = merge_subscribers(self)
            /\ after.subscribers
                 = self.subscribers \cup self.next_subscribers
            /\ after.data = self.data
            /\ after.next_value = self.next_value

C25_CommitAndClear == [](C25_Function) /\ [][C25_Step]_vars

\* right after a commit that joined computed0 to the live subscriber
\* effect0, with a value still staged on the cell
C25_Witness ==
    /\ world[TheCell].subscribers = { "computed0", "effect0" }
    /\ world[TheCell].next_subscribers = {}
    /\ world[TheCell].next_value # None
    /\ hist.live = { "computed0", "effect0" }
    /\ hist.joined = { "computed0", "effect0" }
    /\ hist.readers[TheCell] = {}
    /\ hist.notified = {}

(***************************************************************************)
(* C26: a derivation that returns None.  The step that evaluates a         *)
(* computed whose derivation, on the snapshot it was given, returns None   *)
(* leaves the computed's cell as it was (data, staged value, subscribers   *)
(* and next_subscribers), records nothing in `errors`, adds nothing to     *)
(* `changed`, to `dirty`, to the deferred effects or to the work set of    *)
(* the next wave.  In a run in which computed2 has been evaluated to None, *)
(* computed2 is not in `changed` and its subscriber effect3 has not been   *)
(* flagged by a computed nor executed.                                     *)
(***************************************************************************)
ReturnedNone(n) ==
    hist.seen[n] # << >> /\ Derive(n, hist.seen[n]).kind = "None"

C26_Step ==
    \A n \in Computeds :
        (n \notin processed /\ n \in processed' /\ ReturnedNone(n)')
          => /\ world'[n] = world[n]
             /\ signals'.errors = signals.errors
             /\ signals'.changed = signals.changed
             /\ signals'.dirty = signals.dirty
             /\ deferred' = deferred
             /\ next_work' = next_work
             /\ work' = work

C26_NoPropagation ==
    ReturnedNone("computed2")
      => /\ "computed2" \notin signals.changed
         /\ "computed2" \notin work \cup next_work
         /\ "effect3" \notin hist.flagged
         /\ hist.runs["effect3"] = 0
         /\ \A f \in signals.errors : f[1] # "computed2"

C26_NoneSkips == [](C26_NoPropagation) /\ [][C26_Step]_vars

\* the end of a tick in which signal3 changed to "missing": computed2 was
\* evaluated, still holds "valid" and still has effect3 as a live
\* subscriber, and no error is recorded
C26_Witness ==
    /\ Current = "done"
    /\ schedule = lazy_signals_full_systems
    /\ "signal3" \in signals.changed
    /\ hist.seen["computed2"] = << "missing" >>
    /\ world["computed2"].data = "valid"
    /\ "effect3" \in world["computed2"].subscribers
    /\ signals.errors = {}

(***************************************************************************)
(* C27: effects execute in the run-deferred-effects phase only, and no     *)
(* change is lost.  An effect is flagged (deferred) when a source it       *)
(* subscribes to changes or a trigger it subscribes to fires, and the flag *)
(* outlives the passes of the flush chain, which never execute an effect.  *)
(* Every effect that is flagged when the final phase of the full chain     *)
(* runs, a running task excepted, executes in that phase, once.            *)
(***************************************************************************)
C27_FlushNeverExecutes ==
    schedule = lazy_signals_flush_systems
      => \A e \in Effects : hist.runs[e] = 0

C27_Owed ==
    Runs("apply_deferred_effects")
      => \A e \in deferred :
            (e \in Tasks => e \notin running) => hist'.runs[e] = 1

C27_NothingLost == [](C27_FlushNeverExecutes) /\ [][C27_Owed]_vars

(***************************************************************************)
(* C28: the propagation terminates, cycles among the computeds included.   *)
(* A run that has reached compute_memos leaves it; no computed is          *)
(* evaluated twice in a run; every wave but the last two evaluates a       *)
(* computed, so the waves are numbered up to the number of computeds plus  *)
(* two at most; and a computed of the cycle that a later wave reaches      *)
(* again is not ready, since it is marked processed.                       *)
(***************************************************************************)
MaxWaves == Cardinality(Computeds) + 2

C28_Bounded ==
    /\ wave <= MaxWaves
    /\ \A c \in Computeds : hist.evals[c] <= 1
    /\ \A c \in processed : ~ Ready(c)
    /\ Cardinality(processed) >= wave - 2

C28_Leaves == (Current = "compute_memos") ~> (Current # "compute_memos")

C28_Terminates == [](C28_Bounded) /\ C28_Leaves

\* the third wave of a tick in which signal4 changed: computed3 was
\* evaluated in the first wave and changed, computed4 in the second and
\* changed, and the work set now holds computed4, a source of computed3
C28_Witness ==
    /\ Current = "compute_memos"
    /\ wave = 3
    /\ work = { "computed4" }
    /\ "signal4" \in signals.changed
    /\ { "computed3", "computed4" } \subseteq signals.changed
    /\ processed = { "computed3", "computed4" }
    /\ "computed3" \in signals.dirty

(***************************************************************************)
(* C29: order independence.  At the start of the wave loop (the work set   *)
(* seeded, nothing processed yet) the outcome of the propagation is the    *)
(* same for every order in which the ready computeds may be taken: the     *)
(* data of every cell at the end of the loop, the `changed` set, and the   *)
(* set of the effects that the final phase then executes.  OutcomesOf      *)
(* follows the loop from a state of the propagation along every order and  *)
(* collects the outcomes.                                                  *)
(***************************************************************************)
ReadyIn(st) ==
    { n \in Computeds : /\ n \in st.dirty
                        /\ n \notin st.processed
                        /\ Range(sources(n)) \cap st.work # {} }

\* the propagation after the evaluation of n, as EvalComputed leaves it
EvalIn(n, st) ==
    LET snap == ReadAll(n, sources(n), st.world)
        stored == store_result(Derive(n, snap.args), n, snap.world)
        differs == stored.world[n].data # st.world[n].data
    IN [ world |-> stored.world,
         changed |-> IF differs THEN st.changed \cup { n } ELSE st.changed,
         dirty |-> st.dirty \cup (stored.subs \cap Computeds),
         deferred |-> st.deferred \cup (stored.subs \cap Effects),
         work |-> st.work,
         next_work |-> IF differs THEN st.next_work \cup { n }
                       ELSE st.next_work,
         processed |-> st.processed \cup { n } ]

\* what the propagation leaves behind
OutcomeOf(st) ==
    [ data |-> [ c \in Cells |-> st.world[c].data ],
      changed |-> st.changed,
      executed |-> { e \in st.deferred :
                       /\ \/ Range(triggers(e)) \cap signals.triggered # {}
                          \/ Range(sources(e)) \cap st.changed # {}
                       /\ e \in Tasks => e \notin running } ]

RECURSIVE OutcomesOf(_)
OutcomesOf(st) ==
    IF ReadyIn(st) # {}
    THEN UNION { OutcomesOf(EvalIn(n, st)) : n \in ReadyIn(st) }
    ELSE IF st.work # {}
    THEN OutcomesOf([ st EXCEPT !.work = st.next_work, !.next_work = {} ])
    ELSE { OutcomeOf(st) }

Propagation ==
    [ world |-> world, changed |-> signals.changed, dirty |-> signals.dirty,
      deferred |-> deferred, work |-> work, next_work |-> next_work,
      processed |-> processed ]

C29_OrderIndependent ==
    (Current = "compute_memos" /\ wave = 1 /\ processed = {})
      => Cardinality(OutcomesOf(Propagation)) = 1

=============================================================================
